---- MODULE Spec2Model ----
(***************************************************************************)
(* Open-addressing hash table of ht.h: HashTable<K,V,Prober,Hash,KEqual>   *)
(* with LinearProber and DoubleHashProber.                                 *)
(*                                                                         *)
(* Keys are small integers, values the integers 1 and 2 (0 is the          *)
(* value-initialised V()).  A slot of table_ is a HashItem* : either       *)
(* nullptr (NullItem) or a HashItem {item = (key, val), deleted}.          *)
(* The statistic totalProbes_ is written by probe() and read by no         *)
(* operation of the table; it is left out of the state.                    *)
(* The prober's session fields (start_, m_, numProbes_, dhstep_) are       *)
(* re-initialised by init() at the start of every probe, so a session is   *)
(* modelled by the operators ProberInit / ProberNext and carries no state  *)
(* from one call to the next.  A prober used on its own, as ht-test.cpp    *)
(* constructs one, is the variable session, driven by SessionNext.         *)
(***************************************************************************)
EXTENDS Integers, Sequences, FiniteSets, TLC

\* ------------------------------------------------------------------ bounds
\* the capacity schedule is cut to its first NumCapacities entries
NumCapacities == 2
\* remove() is offered while fewer than MaxDeleted tombstones exist
MaxDeleted == 1
\* a prober on its own is given secondary hash values 0..MaxH2
MaxH2 == 20
\* and, for every capacity of the whole schedule, the steps 2..MaxStep
MaxStep == 12

\* the keys and the values the client uses
Keys == {0, 1}
Vals == {1, 2}

\* ------------------------------------------------------- program constants
\* Prober::npos = (HASH_INDEX_T)-1, a value that is no slot index
npos == -1

\* HashTable::CAPACITIES
ALL_CAPACITIES ==
  << 11, 23, 47, 97, 197, 397, 797, 1597,
     3203, 6421, 12853, 25717, 51437, 102877,
     205759, 411527, 823117, 1646237, 3292489,
     6584983, 13169977, 26339969, 52679969,
     105359969, 210719881, 421439783, 842879579,
     1685759167 >>

CAPACITIES == SubSeq(ALL_CAPACITIES, 1, NumCapacities)

\* DoubleHashProber::DOUBLE_HASH_MOD_VALUES
DOUBLE_HASH_MOD_VALUES ==
  << 7, 19, 43, 89, 193, 389, 787, 1583, 3191, 6397,
     12841, 25703, 51431, 102871, 205721, 411503, 823051,
     1646221, 3292463, 6584957, 13169963, 26339921,
     52679927, 105359939, 210719881, 421439749, 842879563,
     1685759113 >>

DOUBLE_HASH_MOD_SIZE == Len(DOUBLE_HASH_MOD_VALUES)

\* ------------------------------------------------------------------- state
VARIABLES
  table_,         \* std::vector<HashItem*>, indexed 0..capacity-1
  elementCount_,  \* live entries
  deletedCount_,  \* tombstones
  mIndex_,        \* index into CAPACITIES (0-based as in the code)
  prober_,        \* "linear" or "double": the Prober template argument
  hash_,          \* the primary hash, a function on Keys
  h2_,            \* the secondary hash of DoubleHashProber, a function on Keys
  resizeAlpha_,   \* the growth threshold, as <<numerator, denominator>>
  client,         \* the calls the client makes: its keys, its values, its tombstone budget
  session,        \* a prober's fields start_, m_, numProbes_, dhstep_
  shadow,         \* history: per key, the value last written and not removed (0: none)
  ret             \* the last call: its arguments, its result and the path it took

\* what no operation of the table writes
cfgvars == << prober_, hash_, h2_, resizeAlpha_, client, session >>
tblvars == << table_, elementCount_, deletedCount_, mIndex_ >>
vars == << table_, elementCount_, deletedCount_, mIndex_,
           prober_, hash_, h2_, resizeAlpha_, client, session, shadow, ret >>

\* HashItem and the null pointer
NullItem == [used |-> FALSE, key |-> 0, val |-> 0, deleted |-> FALSE]
HashItem(k, v) == [used |-> TRUE, key |-> k, val |-> v, deleted |-> FALSE]

Capacity(mi) == CAPACITIES[mi + 1]
EmptyTable(m) == [i \in 0..(m - 1) |-> NullItem]

\* ----------------------------------------------------------------- probers
\* DoubleHashProber::findModulusToUseFromTableSize: the loop from index i
\* (1-based here), with the modulus chosen so far
RECURSIVE findModulusLoop(_, _, _)
findModulusLoop(i, modulus, currTableSize) ==
  IF i <= DOUBLE_HASH_MOD_SIZE /\ DOUBLE_HASH_MOD_VALUES[i] < currTableSize
    THEN findModulusLoop(i + 1, DOUBLE_HASH_MOD_VALUES[i], currTableSize)
    ELSE modulus

findModulusToUseFromTableSize(currTableSize) ==
  findModulusLoop(1, DOUBLE_HASH_MOD_VALUES[1], currTableSize)

\* the step without the subtraction from the modulus
dhstepNoComplement(m, key) ==
  LET modulus == findModulusToUseFromTableSize(m)
  IN  h2_[key] % modulus

\* DoubleHashProber::init, the step it derives
dhstepOf(m, key) ==
  LET modulus == findModulusToUseFromTableSize(m)
  IN  modulus - (h2_[key] % modulus)

\* Prober::init / DoubleHashProber::init : a fresh session
ProberInit(start, m, key) ==
  [ start_ |-> start, m_ |-> m, numProbes_ |-> 0,
    dhstep_ |-> IF prober_ = "double" THEN dhstepOf(m, key) ELSE 1 ]

\* LinearProber::next, the index it returns
LinearNext(s) ==
  IF s.numProbes_ >= s.m_ THEN npos
  ELSE (s.start_ + s.numProbes_) % s.m_

\* DoubleHashProber::next, the index it returns
DoubleNext(s) ==
  IF s.numProbes_ >= s.m_ THEN npos
  ELSE (s.start_ + s.numProbes_ * s.dhstep_) % s.m_

\* prober_.next(): the returned index
ProberNext(s) == IF prober_ = "double" THEN DoubleNext(s) ELSE LinearNext(s)

\* prober_.next(): the session afterwards (numProbes_++ unless exhausted)
ProberAdvance(s) ==
  IF s.numProbes_ >= s.m_ THEN s
  ELSE [s EXCEPT !.numProbes_ = s.numProbes_ + 1]

\* ------------------------------------------------------------------- probe
\* HashTable::probe, the while loop: loc is the index next() just returned
RECURSIVE probeLoop(_, _, _, _)
probeLoop(t, s, loc, key) ==
  IF loc = npos THEN npos
  ELSE IF ~t[loc].used THEN loc
  ELSE IF ~t[loc].deleted /\ t[loc].key = key THEN loc
  ELSE LET s1 == ProberAdvance(s)
       IN  probeLoop(t, s1, ProberNext(s1), key)

\* probe with the tombstone test of its loop lost: a deleted slot ends the
\* search as an empty one does
RECURSIVE probeLoopStopsAtDeleted(_, _, _, _)
probeLoopStopsAtDeleted(t, s, loc, key) ==
  IF loc = npos THEN npos
  ELSE IF ~t[loc].used \/ t[loc].deleted THEN loc
  ELSE IF t[loc].key = key THEN loc
  ELSE LET s1 == ProberAdvance(s)
       IN  probeLoopStopsAtDeleted(t, s1, ProberNext(s1), key)

probeStopsAtDeleted(t, mi, key) ==
  LET h == hash_[key] % Capacity(mi)
      s == ProberInit(h, Capacity(mi), key)
  IN  probeLoopStopsAtDeleted(t, s, ProberNext(s), key)

\* probe with "!table_[loc]->deleted &&" dropped from the key comparison
RECURSIVE probeLoopMatchesDeleted(_, _, _, _)
probeLoopMatchesDeleted(t, s, loc, key) ==
  IF loc = npos THEN npos
  ELSE IF ~t[loc].used THEN loc
  ELSE IF t[loc].key = key THEN loc
  ELSE LET s1 == ProberAdvance(s)
       IN  probeLoopMatchesDeleted(t, s1, ProberNext(s1), key)

probeMatchesDeleted(t, mi, key) ==
  LET h == hash_[key] % Capacity(mi)
      s == ProberInit(h, Capacity(mi), key)
  IN  probeLoopMatchesDeleted(t, s, ProberNext(s), key)

\* HashTable::probe on table t of capacity CAPACITIES[mi]
probe(t, mi, key) ==
  LET h == hash_[key] % Capacity(mi)
      s == ProberInit(h, Capacity(mi), key)
  IN  probeLoop(t, s, ProberNext(s), key)

\* HashTable::find : <<>> for nullptr, else the item <<key, value>>
find(t, mi, key) ==
  LET h == probe(t, mi, key)
  IN  IF h = npos \/ ~t[h].used THEN << >>
      ELSE << t[h].key, t[h].val >>

\* HashTable::internalFind : npos for nullptr, else the slot of the HashItem
internalFind(t, mi, key) ==
  LET h == probe(t, mi, key)
  IN  IF h = npos \/ ~t[h].used THEN npos ELSE h

\* ------------------------------------------------------------------ resize
\* HashTable::resize, the inner while loop: the first index the session
\* yields whose slot of the new table is nullptr (npos when exhausted)
RECURSIVE resizeSeek(_, _, _)
resizeSeek(t, s, loc) ==
  IF loc # npos /\ t[loc].used
    THEN LET s1 == ProberAdvance(s) IN resizeSeek(t, s1, ProberNext(s1))
    ELSE loc

\* resize storing each entry at its home slot, without the inner while loop
resizePlaceNoSeek(t, mi, item) == hash_[item.key] % Capacity(mi)

\* HashTable::resize, where one live HashItem of the old table goes
resizePlace(t, mi, item) ==
  LET h == hash_[item.key] % Capacity(mi)
      s == ProberInit(h, Capacity(mi), item.key)
  IN  resizeSeek(t, s, ProberNext(s))

\* HashTable::resize, the for loop over oldTable from index i on.
\* r = [table, count, oob]; oob records a write through table_[npos], which
\* is outside the vector.
RECURSIVE resizeLoop(_, _, _, _)
resizeLoop(old, i, mi, r) ==
  IF i >= Len(old) THEN r
  ELSE LET ptr == old[i + 1]
       IN  IF ~ptr.used \/ ptr.deleted THEN resizeLoop(old, i + 1, mi, r)
           ELSE LET loc == resizePlace(r.table, mi, ptr)
                IN  IF loc = npos
                      THEN resizeLoop(old, i + 1, mi,
                             [r EXCEPT !.count = r.count + 1, !.oob = TRUE])
                      ELSE resizeLoop(old, i + 1, mi,
                             [r EXCEPT !.table = [r.table EXCEPT ![loc] = ptr],
                                       !.count = r.count + 1])

\* the old table as the sequence the for loop walks (index 0 first)
AsSeq(t, m) == [i \in 1..m |-> t[i - 1]]

\* resize that zeroes the counters before it finds the schedule exhausted
resizeResetsFirst(t, ec, dc, mi) ==
  IF mi + 1 >= Len(CAPACITIES)
    THEN [table |-> t, ec |-> 0, dc |-> 0, mi |-> mi,
          err |-> "No more primes to grow to"]
    ELSE LET r == resizeLoop(AsSeq(t, Capacity(mi)), 0, mi + 1,
                    [table |-> EmptyTable(Capacity(mi + 1)), count |-> 0, oob |-> FALSE])
         IN  [table |-> r.table, ec |-> r.count, dc |-> 0, mi |-> mi + 1,
              err |-> IF r.oob THEN "out-of-bounds write" ELSE ""]

\* HashTable::resize on (t, ec, dc, mi):
\* [table, ec, dc, mi, err] after it returns or throws
resize(t, ec, dc, mi) ==
  IF mi + 1 >= Len(CAPACITIES)
    THEN [table |-> t, ec |-> ec, dc |-> dc, mi |-> mi,
          err |-> "No more primes to grow to"]
    ELSE LET r == resizeLoop(AsSeq(t, Capacity(mi)), 0, mi + 1,
                    [table |-> EmptyTable(Capacity(mi + 1)), count |-> 0, oob |-> FALSE])
         IN  [table |-> r.table, ec |-> r.count, dc |-> 0, mi |-> mi + 1,
              err |-> IF r.oob THEN "out-of-bounds write" ELSE ""]

\* ------------------------------------------------------------------ insert
\* insert's growth test: double(elementCount_) / CAPACITIES[mIndex_] > resizeAlpha_.
\* With resizeAlpha_ = num/den this is ec * den > num * capacity; the thresholds
\* used here have denominators 10 and 50 and the capacities are primes other
\* than 2 and 5, so the quotient never equals the threshold, nor comes within
\* rounding distance of it.
loadFactorExceeds(ec, mi) ==
  ec * resizeAlpha_[2] > resizeAlpha_[1] * Capacity(mi)

\* insert whose last branch leaves the stored value as it was
insertAtKeepsValue(t, ec, dc, loc, k, v) ==
  IF ~t[loc].used
    THEN [table |-> [t EXCEPT ![loc] = HashItem(k, v)],
          ec |-> ec + 1, dc |-> dc, path |-> "new"]
  ELSE IF t[loc].deleted
    THEN [table |-> [t EXCEPT ![loc] = HashItem(k, v)],
          ec |-> ec + 1, dc |-> dc - 1, path |-> "reuse"]
  ELSE [table |-> t, ec |-> ec, dc |-> dc, path |-> "update"]

\* HashTable::insert, the three placement branches at slot loc:
\* [table, ec, dc, path]
insertAt(t, ec, dc, loc, k, v) ==
  IF ~t[loc].used
    THEN [table |-> [t EXCEPT ![loc] = HashItem(k, v)],
          ec |-> ec + 1, dc |-> dc, path |-> "new"]
  ELSE IF t[loc].deleted
    THEN [table |-> [t EXCEPT ![loc] = HashItem(k, v)],
          ec |-> ec + 1, dc |-> dc - 1, path |-> "reuse"]
  ELSE [table |-> [t EXCEPT ![loc].val = v],
        ec |-> ec, dc |-> dc, path |-> "update"]

\* insert that grows before it stores: when resize throws, nothing was stored
insertRollsBack(t, ec, dc, mi, k, v) ==
  LET loc == probe(t, mi, k)
  IN  IF loc = npos
        THEN [table |-> t, ec |-> ec, dc |-> dc, mi |-> mi,
              err |-> "HashTable full", path |-> "full", loc |-> npos, grew |-> FALSE]
        ELSE LET p == insertAt(t, ec, dc, loc, k, v)
             IN  IF loadFactorExceeds(p.ec, mi)
                   THEN LET g == resize(p.table, p.ec, p.dc, mi)
                        IN  IF g.err # ""
                              THEN [table |-> t, ec |-> ec, dc |-> dc, mi |-> mi,
                                    err |-> g.err, path |-> p.path, loc |-> loc,
                                    grew |-> TRUE]
                              ELSE [table |-> g.table, ec |-> g.ec, dc |-> g.dc,
                                    mi |-> g.mi, err |-> g.err, path |-> p.path,
                                    loc |-> loc, grew |-> TRUE]
                   ELSE [table |-> p.table, ec |-> p.ec, dc |-> p.dc, mi |-> mi,
                         err |-> "", path |-> p.path, loc |-> loc, grew |-> FALSE]

\* HashTable::insert on (t, ec, dc, mi):
\* [table, ec, dc, mi, err, path, loc, grew]
insert(t, ec, dc, mi, k, v) ==
  LET loc == probe(t, mi, k)
  IN  IF loc = npos
        THEN [table |-> t, ec |-> ec, dc |-> dc, mi |-> mi,
              err |-> "HashTable full", path |-> "full", loc |-> npos, grew |-> FALSE]
        ELSE LET p == insertAt(t, ec, dc, loc, k, v)
             IN  IF loadFactorExceeds(p.ec, mi)
                   THEN LET g == resize(p.table, p.ec, p.dc, mi)
                        IN  [table |-> g.table, ec |-> g.ec, dc |-> g.dc, mi |-> g.mi,
                             err |-> g.err, path |-> p.path, loc |-> loc, grew |-> TRUE]
                   ELSE [table |-> p.table, ec |-> p.ec, dc |-> p.dc, mi |-> mi,
                         err |-> "", path |-> p.path, loc |-> loc, grew |-> FALSE]

\* ------------------------------------------------------------------ remove
\* remove without "elementCount_--"
removeKeepsCount(t, ec, dc, mi, key) ==
  LET hi == internalFind(t, mi, key)
  IN  IF hi # npos /\ ~t[hi].deleted
        THEN [table |-> [t EXCEPT ![hi].deleted = TRUE],
              ec |-> ec, dc |-> dc + 1, path |-> "removed", loc |-> hi]
        ELSE [table |-> t, ec |-> ec, dc |-> dc, path |-> "absent", loc |-> hi]

\* remove that clears the slot instead of leaving a tombstone
removeClearsSlot(t, ec, dc, mi, key) ==
  LET hi == internalFind(t, mi, key)
  IN  IF hi # npos /\ ~t[hi].deleted
        THEN [table |-> [t EXCEPT ![hi] = NullItem],
              ec |-> ec - 1, dc |-> dc, path |-> "removed", loc |-> hi]
        ELSE [table |-> t, ec |-> ec, dc |-> dc, path |-> "absent", loc |-> hi]

\* HashTable::remove on (t, ec, dc): [table, ec, dc, path, loc]
remove(t, ec, dc, mi, key) ==
  LET hi == internalFind(t, mi, key)
  IN  IF hi # npos /\ ~t[hi].deleted
        THEN [table |-> [t EXCEPT ![hi].deleted = TRUE],
              ec |-> ec - 1, dc |-> dc + 1, path |-> "removed", loc |-> hi]
        ELSE [table |-> t, ec |-> ec, dc |-> dc, path |-> "absent", loc |-> hi]

\* ---------------------------------------------------------------------- at
\* HashTable::at : [err, loc]; the reference returned is to table_[loc]->item.second
at(t, mi, key) ==
  LET hi == internalFind(t, mi, key)
  IN  IF hi = npos THEN [err |-> "Bad key", loc |-> npos]
      ELSE [err |-> "", loc |-> hi]

\* HashTable::operator[] (non-const)
OperatorIndex(t, mi, key) == at(t, mi, key)

\* HashTable::size
size(ec) == ec

\* HashTable::empty
empty(ec) == ec = 0

\* HashTable::reportAll: the loop from bucket i, with the lines written so far;
\* a line "Bucket i: key => value" is << i, key, value >>
RECURSIVE reportAllLoop(_, _, _, _)
reportAllLoop(t, i, mi, out) ==
  IF i >= Capacity(mi) THEN out
  ELSE IF t[i].used
         THEN reportAllLoop(t, i + 1, mi, Append(out, << i, t[i].key, t[i].val >>))
         ELSE reportAllLoop(t, i + 1, mi, out)

reportAll(t, mi) == reportAllLoop(t, 0, mi, << >>)

\* ----------------------------------------------------------- configuration
\* primary hashes: BadHash of ht-test.cpp (constant 1), the identity
\* (std::hash<int>), and one whose values collide modulo 11 but not modulo 23
HashFns ==
  { [k \in Keys |-> 1], [k \in Keys |-> k], [k \in Keys |-> 11 * k + 1] }

\* secondary hashes for DoubleHashProber: one that makes every step equal to the
\* modulus at capacity 11, one that gives the keys different steps
Hash2Fns ==
  { [k \in Keys |-> 7 * k], [k \in Keys |-> k + 3] }

\* growth thresholds (resizeAlpha), as <<numerator, denominator>>
Alphas == { <<1, 50>>, <<1, 10>>, <<5, 10>> }

\* a prober before its first init(): the table reads none of these fields
\* before init() has written them
IdleSession == [start_ |-> 0, m_ |-> 0, numProbes_ |-> 0, dhstep_ |-> 0]

\* the constructor's member initialisers and body
FreshTable ==
  /\ mIndex_ = 0
  /\ table_ = EmptyTable(Capacity(0))
  /\ elementCount_ = 0
  /\ deletedCount_ = 0
  /\ shadow = [k \in Keys |-> 0]
  /\ ret = [op |-> "new", key |-> 0, val |-> 0, out |-> << >>, err |-> "",
            path |-> "", loc |-> npos, grew |-> FALSE]

\* the constructor: HashTable(resizeAlpha, prober, hash, kequal)
Constructed ==
  /\ FreshTable
  /\ prober_ \in {"linear", "double"}
  /\ hash_ \in HashFns
  /\ h2_ \in (IF prober_ = "double" THEN Hash2Fns ELSE {[k \in Keys |-> 0]})
  /\ resizeAlpha_ \in Alphas
  /\ session = IdleSession

Init ==
  /\ Constructed
  /\ client = [keys |-> Keys, vals |-> Vals, maxDeleted |-> MaxDeleted]

\* ----------------------------------------------------------------- actions
\* ht.insert({k, v})
Insert(k, v) ==
  \E r \in {insert(table_, elementCount_, deletedCount_, mIndex_, k, v)} :
      /\ table_' = r.table
      /\ elementCount_' = r.ec
      /\ deletedCount_' = r.dc
      /\ mIndex_' = r.mi
      /\ shadow' = IF r.path = "full" THEN shadow ELSE [shadow EXCEPT ![k] = v]
      /\ ret' = [op |-> "insert", key |-> k, val |-> v, out |-> << >>, err |-> r.err,
                 path |-> r.path, loc |-> r.loc, grew |-> r.grew]
      /\ UNCHANGED cfgvars

\* ht.remove(k)
Remove(k) ==
  \E r \in {remove(table_, elementCount_, deletedCount_, mIndex_, k)} :
      /\ r.path = "removed" => deletedCount_ < client.maxDeleted
      /\ table_' = r.table
      /\ elementCount_' = r.ec
      /\ deletedCount_' = r.dc
      /\ shadow' = [shadow EXCEPT ![k] = 0]
      /\ ret' = [op |-> "remove", key |-> k, val |-> 0, out |-> << >>, err |-> "",
                 path |-> r.path, loc |-> r.loc, grew |-> FALSE]
      /\ UNCHANGED << mIndex_, cfgvars >>

\* ht.find(k)
Find(k) ==
  /\ ret' = [op |-> "find", key |-> k, val |-> 0, out |-> find(table_, mIndex_, k),
             err |-> "", path |-> "", loc |-> npos, grew |-> FALSE]
  /\ UNCHANGED << tblvars, cfgvars, shadow >>

\* ht.reportAll(out)
ReportAll ==
  /\ ret' = [op |-> "reportAll", key |-> 0, val |-> 0, out |-> reportAll(table_, mIndex_),
             err |-> "", path |-> "", loc |-> npos, grew |-> FALSE]
  /\ UNCHANGED << tblvars, cfgvars, shadow >>

\* ht.at(k), read
At(k) ==
  \E r \in {at(table_, mIndex_, k)} :
      /\ ret' = [op |-> "at", key |-> k, val |-> 0,
                 out |-> IF r.err = "" THEN << table_[r.loc].val >> ELSE << >>,
                 err |-> r.err, path |-> "", loc |-> r.loc, grew |-> FALSE]
      /\ UNCHANGED << tblvars, cfgvars, shadow >>

\* ht[k] = v : operator[] and an assignment through the reference it returns
IndexAssign(k, v) ==
  \E r \in {OperatorIndex(table_, mIndex_, k)} :
      /\ table_' = IF r.err = "" THEN [table_ EXCEPT ![r.loc].val = v] ELSE table_
      /\ shadow' = IF r.err = "" THEN [shadow EXCEPT ![k] = v] ELSE shadow
      /\ ret' = [op |-> "index", key |-> k, val |-> v, out |-> << >>, err |-> r.err,
                 path |-> "", loc |-> r.loc, grew |-> FALSE]
      /\ UNCHANGED << elementCount_, deletedCount_, mIndex_, cfgvars >>

Next ==
  \/ \E k \in client.keys, v \in client.vals : Insert(k, v)
  \/ \E k \in client.keys : Remove(k)
  \/ \E k \in client.keys : Find(k)
  \/ \E k \in client.keys : At(k)
  \/ \E k \in client.keys, v \in client.vals : IndexAssign(k, v)
  \/ ReportAll

Spec == Init /\ [][Next]_vars

\* The same table driven by a client that inserts and removes one key over and
\* over, with no limit on the tombstones it leaves.
ChurnInit ==
  /\ Constructed
  /\ client = [keys |-> {0}, vals |-> {1}, maxDeleted |-> Capacity(Len(CAPACITIES) - 1)]

SpecChurn == ChurnInit /\ [][Next]_vars

\* ------------------------------------------------------ a prober on its own
\* A session init(start, m, key) of a prober, as testDoubleHashProber
\* constructs one, followed call by call.  Sessions over the capacities of
\* CAPACITIES are followed from their first call to past their last.  Sessions
\* over every capacity of the whole schedule are entered at the positions
\* 0, m \div d and m, for the double-hash steps d = 2..MaxStep, and
\* followed for one call from there.
Range(f) == { f[i] : i \in DOMAIN f }

ShortSessions ==
  { [kind |-> kd, m |-> m, start |-> st, h2 |-> h, n |-> 0] :
      kd \in {"linear", "double"}, m \in Range(CAPACITIES),
      st \in 0..(CAPACITIES[Len(CAPACITIES)] - 1), h \in 0..MaxH2 }

LongSessions ==
  { [kind |-> "double", m |-> mp[1], start |-> 0,
     h2 |-> findModulusToUseFromTableSize(mp[1]) - mp[2], n |-> pos] :
      mp \in { x \in Range(ALL_CAPACITIES) \X (2..MaxStep) :
                 x[2] < findModulusToUseFromTableSize(x[1]) },
      pos \in 0..2 }

\* the position a long session is entered at
EntryPosition(c) ==
  IF c.m \in Range(CAPACITIES) THEN 0
  ELSE LET d == findModulusToUseFromTableSize(c.m) - c.h2
       IN  CASE c.n = 0 -> 0
             [] c.n = 1 -> c.m \div d
             [] OTHER   -> c.m

SessionCases ==
  { c \in ShortSessions : c.start < c.m /\ (c.kind = "linear" => c.h2 = 0) }
    \cup { c \in LongSessions : c.m \notin Range(CAPACITIES) }

ProberInitial ==
  /\ FreshTable
  /\ hash_ = [k \in Keys |-> 1]
  /\ resizeAlpha_ = << 5, 10 >>
  /\ client = [keys |-> Keys, vals |-> Vals, maxDeleted |-> MaxDeleted]
  /\ \E c \in SessionCases :
        /\ prober_ = c.kind
        /\ h2_ = [k \in Keys |-> c.h2]
        /\ session = [ProberInit(c.start, c.m, 0) EXCEPT !.numProbes_ = EntryPosition(c)]

\* sessions over a capacity of CAPACITIES are followed to their end, the
\* others for the one call after their entry
Followed(s) ==
  \/ s.m_ \in Range(CAPACITIES)
  \/ ret.op = "new"

\* session.next()
SessionNext ==
  /\ Followed(session)
  /\ session' = ProberAdvance(session)
  /\ ret' = [op |-> "next", key |-> 0, val |-> 0, out |-> << >>, err |-> "",
             path |-> "", loc |-> ProberNext(session), grew |-> FALSE]
  /\ UNCHANGED << tblvars, prober_, hash_, h2_, resizeAlpha_, client, shadow >>

NextProber == SessionNext

SpecProber == ProberInitial /\ [][NextProber]_vars

\* ============================================================== properties
\* What the properties are stated with: the slots of a table read directly,
\* not through probe.
Slots(t) == DOMAIN t
IsLive(t, i) == t[i].used /\ ~t[i].deleted
IsTombstone(t, i) == t[i].used /\ t[i].deleted
HasLive(t, k) == \E i \in Slots(t) : IsLive(t, i) /\ t[i].key = k
LiveKeys(t) == { k \in Keys : HasLive(t, k) }
LivePairs(t) == { << t[i].key, t[i].val >> : i \in { j \in Slots(t) : IsLive(t, j) } }
FoundPairs(t, mi) == { find(t, mi, k) : k \in Keys } \ { << >> }
\* the i-th slot (i = 0, 1, ...) of key k's probe sequence at capacity index mi
Candidate(mi, k, i) ==
  ProberNext([ProberInit(hash_[k] % Capacity(mi), Capacity(mi), k) EXCEPT !.numProbes_ = i])
\* key k's probe sequence meets a tombstone before it meets an empty slot
TombstoneFirst(t, mi, k) ==
  \E i \in 0..(Capacity(mi) - 1) :
     /\ IsTombstone(t, Candidate(mi, k, i))
     /\ \A j \in 0..(i - 1) : t[Candidate(mi, k, j)].used
Threshold == resizeAlpha_
LastCapacity == mIndex_ + 1 >= Len(CAPACITIES)

\* C1: every key that was inserted (or assigned) and not removed since is found
\* by find, with the value last written for it; for every hash function and
\* prober of the configuration.
C1_LiveKeysFound ==
  \A k \in Keys : shadow[k] # 0 => find(table_, mIndex_, k) = << k, shadow[k] >>

\* a find has returned a key that sits past its home slot, behind a tombstone
C1_Witness ==
  /\ ret.op = "find" /\ ret.out = << ret.key, shadow[ret.key] >>
  /\ shadow[ret.key] # 0
  /\ deletedCount_ > 0
  /\ IsTombstone(table_, hash_[ret.key] % Capacity(mIndex_))

\* C2: size() is the number of distinct keys that have a live entry, which is
\* the number of keys inserted and not removed since.
C2_SizeCountsLiveKeys ==
  /\ size(elementCount_) = Cardinality(LiveKeys(table_))
  /\ size(elementCount_) = Cardinality({ k \in Keys : shadow[k] # 0 })

\* two distinct keys are live after an insert, and a remove has left a tombstone
C2_Witness ==
  /\ ret.op = "insert" /\ ret.path = "new"
  /\ size(elementCount_) = 2 /\ deletedCount_ > 0

\* C3: remove(k) of a key with a live entry makes find(k) null and size() one
\* less; remove(k) of a key with none raises nothing and leaves the slots, both
\* counters and the capacity as they were.
C3_Remove ==
  [][ ret'.op = "remove" =>
        IF HasLive(table_, ret'.key)
          THEN /\ find(table_', mIndex_', ret'.key) = << >>
               /\ size(elementCount_') = size(elementCount_) - 1
          ELSE /\ ret'.err = ""
               /\ table_' = table_
               /\ elementCount_' = elementCount_
               /\ deletedCount_' = deletedCount_
               /\ mIndex_' = mIndex_ ]_vars

\* a remove has tombstoned a live entry while another key stays live
C3_Witness ==
  /\ ret.op = "remove" /\ ret.path = "removed"
  /\ IsTombstone(table_, ret.loc) /\ table_[ret.loc].key = ret.key
  /\ elementCount_ = 1

\* C4: insert(k, v2) of a key with a live entry is an update: it is not turned
\* away for want of a slot, find(k) then returns v2, size() is as before, and
\* every other key is found with the value it had.
C4_InsertUpdates ==
  [][ (ret'.op = "insert" /\ HasLive(table_, ret'.key)) =>
        /\ ret'.path = "update"
        /\ ret'.err # "HashTable full"
        /\ find(table_', mIndex_', ret'.key) = << ret'.key, ret'.val >>
        /\ size(elementCount_') = size(elementCount_)
        /\ \A j \in Keys \ {ret'.key} :
              find(table_', mIndex_', j) = find(table_, mIndex_, j) ]_vars

\* an insert has updated one of two live keys
C4_Witness ==
  /\ ret.op = "insert" /\ ret.path = "update"
  /\ elementCount_ = 2
  /\ find(table_, mIndex_, ret.key) = << ret.key, ret.val >>

\* C5: when an insert resizes, find afterwards returns exactly the pairs that
\* were live when resize was entered (the old live pairs with the inserted pair
\* in place), each stored once, and no tombstone is left.
C5_ResizeRoundTrip ==
  [][ (ret'.op = "insert" /\ mIndex_' # mIndex_) =>
        LET before == { p \in LivePairs(table_) : p[1] # ret'.key }
                        \cup { << ret'.key, ret'.val >> }
        IN  /\ FoundPairs(table_', mIndex_') = before
            /\ LivePairs(table_') = before
            /\ Cardinality({ i \in Slots(table_') : table_'[i].used }) = Cardinality(before)
            /\ deletedCount_' = 0
            /\ \A i \in Slots(table_') : ~IsTombstone(table_', i) ]_vars

\* an insert has resized a table of two keys that collide under the new capacity
C5_Witness ==
  /\ ret.op = "insert" /\ ret.grew /\ ret.err = ""
  /\ mIndex_ = 1 /\ elementCount_ = 2
  /\ \E j, k \in Keys : j # k /\ hash_[j] % Capacity(1) = hash_[k] % Capacity(1)

\* C6: ht[k] = v never raises the missing-key error; on a key with no live entry
\* it creates the entry, so that at(k) then returns v.
C6_IndexCreates ==
  ret.op = "index" =>
    /\ ret.err = ""
    /\ at(table_, mIndex_, ret.key).err = ""
    /\ find(table_, mIndex_, ret.key) = << ret.key, ret.val >>

\* C7: at(k) returns the value of k's live entry, and raises out_of_range ("Bad
\* key") when k has none, also after k was removed; at changes no slot, counter
\* or capacity.
C7_At ==
  [][ ret'.op = "at" =>
        /\ table_' = table_ /\ elementCount_' = elementCount_
        /\ deletedCount_' = deletedCount_ /\ mIndex_' = mIndex_
        /\ IF HasLive(table_, ret'.key)
             THEN ret'.err = "" /\ << ret'.key, ret'.out[1] >> \in LivePairs(table_)
             ELSE ret'.err = "Bad key" /\ ret'.out = << >> ]_vars

\* at has raised for a key whose entry was removed and is still in its slot
C7_Witness ==
  /\ ret.op = "at" /\ ret.err = "Bad key"
  /\ \E i \in Slots(table_) : IsTombstone(table_, i) /\ table_[i].key = ret.key

\* C8: with a threshold below 1 and a larger capacity left in the schedule, no
\* insert fails with "HashTable full".
C8_InsertNeverFull ==
  (Threshold[1] < Threshold[2] /\ ~LastCapacity /\ ret.op = "insert")
     => ret.err # "HashTable full"

\* C9: an insert of a key with no live entry whose probe sequence meets a
\* tombstone before an empty slot stores the entry in a tombstone slot:
\* liveCount goes up by one and tombstoneCount down by one.
C9_InsertReusesTombstone ==
  [][ ( /\ ret'.op = "insert" /\ ~ret'.grew
        /\ ~HasLive(table_, ret'.key)
        /\ TombstoneFirst(table_, mIndex_, ret'.key) ) =>
        /\ ret'.path = "reuse"
        /\ IsTombstone(table_, ret'.loc) /\ IsLive(table_', ret'.loc)
        /\ elementCount_' = elementCount_ + 1
        /\ deletedCount_' = deletedCount_ - 1 ]_vars

\* C10: no insert returns normally, without having resized, with
\* (liveCount + tombstoneCount) / capacity at or above the threshold.
C10_GrowthCountsTombstones ==
  (ret.op = "insert" /\ ret.err = "" /\ ~ret.grew) =>
     (elementCount_ + deletedCount_) * Threshold[2] < Threshold[1] * Capacity(mIndex_)

\* C11: when growth is asked for at the last capacity of the schedule, resize
\* raises "No more primes to grow to" and does nothing else: the capacity, the
\* slots and both counters are as insert's placement left them.
C11_ExhaustedResizeDoesNothing ==
  [][ (ret'.op = "insert" /\ ret'.grew /\ LastCapacity) =>
        /\ ret'.err = "No more primes to grow to"
        /\ mIndex_' = mIndex_
        /\ DOMAIN table_' = DOMAIN table_
        /\ \A i \in Slots(table_) \ {ret'.loc} : table_'[i] = table_[i]
        /\ table_'[ret'.loc] = HashItem(ret'.key, ret'.val)
        /\ elementCount_' = elementCount_ + (IF ret'.path = "update" THEN 0 ELSE 1)
        /\ deletedCount_' = deletedCount_ ]_vars

\* an insert has asked for growth at the last capacity, with a tombstone in place
C11_Witness ==
  /\ ret.op = "insert" /\ ret.grew /\ ret.err = "No more primes to grow to"
  /\ LastCapacity
  /\ deletedCount_ = 1 /\ elementCount_ = 1

\* the largest listed modulus below m, or the smallest listed one if none is
ListedBelow(m) == { p \in Range(DOUBLE_HASH_MOD_VALUES) : p < m }
ModulusFor(m) ==
  IF ListedBelow(m) = {} THEN DOUBLE_HASH_MOD_VALUES[1]
  ELSE CHOOSE p \in ListedBelow(m) : \A q \in ListedBelow(m) : q <= p

\* C12: for every secondary hash value and every capacity of the schedule the
\* double-hash step is modulus - (h2(key) mod modulus), with modulus the largest
\* listed prime below the capacity, and lies in 1..modulus; a session yields a
\* slot index while fewer than capacity were yielded and reports exhaustion
\* from then on.
C12_DoubleHashStep ==
  prober_ = "double" =>
    LET modulus == ModulusFor(session.m_)
    IN  /\ session.dhstep_ = modulus - (h2_[0] % modulus)
        /\ 1 <= session.dhstep_ /\ session.dhstep_ <= modulus
        /\ session.numProbes_ <= session.m_
        /\ (ProberNext(session) = npos) <=> (session.numProbes_ >= session.m_)
        /\ (ret.op = "next" /\ ret.loc # npos) =>
              /\ ret.loc \in 0..(session.m_ - 1)
              /\ ret.loc = (session.start_ + (session.numProbes_ - 1) * session.dhstep_)
                             % session.m_

\* a double-hash session whose secondary hash is a multiple of the modulus (the
\* step is the modulus itself) has reported exhaustion after 23 indices
C12_Witness ==
  /\ prober_ = "double" /\ session.m_ = 23
  /\ h2_[0] % 19 = 0 /\ session.dhstep_ = 19
  /\ session.numProbes_ = 23
  /\ ret.op = "next" /\ ret.loc = npos

\* the lines of a dump, as a set
Lines(out) == { out[n] : n \in DOMAIN out }
LiveLines(t) == { << i, t[i].key, t[i].val >> : i \in { j \in Slots(t) : IsLive(t, j) } }

\* C13: the dump written by reportAll has one line per live entry, with its
\* slot index, and no line for a removed entry.
C13_ReportListsLiveOnly ==
  ret.op = "reportAll" =>
    /\ Lines(ret.out) = LiveLines(table_)
    /\ Len(ret.out) = elementCount_

\* the live slots and the tombstones of t
LiveSlots(t) == { i \in Slots(t) : IsLive(t, i) }
TombstoneSlots(t) == { i \in Slots(t) : IsTombstone(t, i) }

\* C14: elementCount_ is the number of occupied slots that are not tombstones,
\* deletedCount_ is the number of tombstones, and the two together do not
\* exceed the capacity.
C14_CountersMatchSlots ==
  /\ elementCount_ = Cardinality(LiveSlots(table_))
  /\ deletedCount_ = Cardinality(TombstoneSlots(table_))
  /\ elementCount_ + deletedCount_ <= Capacity(mIndex_)
  /\ size(elementCount_) = Cardinality(LiveSlots(table_))

\* after a growth that dropped the tombstones, a remove has left one live entry
\* and one tombstone in the larger table
C14_Witness ==
  /\ mIndex_ = 1
  /\ ret.op = "remove" /\ ret.path = "removed"
  /\ elementCount_ = 1 /\ deletedCount_ = 1

\* slot s is the n-th candidate of key k's probe sequence and every candidate
\* before it is a used slot (occupied or tombstone)
ReachedThroughUsed(t, mi, k, s) ==
  \E n \in 0..(Capacity(mi) - 1) :
     /\ Candidate(mi, k, n) = s
     /\ \A j \in 0..(n - 1) : t[Candidate(mi, k, j)].used

\* C15: every live key sits on its own probe sequence, under the current
\* capacity and prober, with no empty slot before it; a search that stops at
\* the first empty slot therefore finds it.
C15_NoEmptyBeforeLiveKey ==
  \A s \in LiveSlots(table_) :
     /\ ReachedThroughUsed(table_, mIndex_, table_[s].key, s)
     /\ internalFind(table_, mIndex_, table_[s].key) = s

\* after a growth and a remove, a live key sits behind the tombstone that
\* occupies its home slot
C15_Witness ==
  /\ mIndex_ = 1
  /\ ret.op = "remove" /\ ret.path = "removed"
  /\ \E s \in LiveSlots(table_) :
        /\ Candidate(mIndex_, table_[s].key, 0) # s
        /\ IsTombstone(table_, Candidate(mIndex_, table_[s].key, 0))

\* C16: remove(k) turns the slot that holds k into a tombstone and changes no
\* other slot; every other key is found after the remove exactly as before it.
C16_RemoveKeepsOthers ==
  [][ ret'.op = "remove" =>
        /\ ret'.path = "removed" =>
              /\ IsLive(table_, ret'.loc) /\ table_[ret'.loc].key = ret'.key
              /\ table_' = [table_ EXCEPT ![ret'.loc].deleted = TRUE]
        /\ ret'.path = "absent" => table_' = table_
        /\ mIndex_' = mIndex_
        /\ \A k \in Keys \ {ret'.key} :
              find(table_', mIndex_', k) = find(table_, mIndex_, k) ]_vars

\* the slot just removed is the first candidate of another key, which is still
\* found farther along its probe sequence
C16_Witness ==
  /\ ret.op = "remove" /\ ret.path = "removed"
  /\ \E k \in Keys \ {ret.key} :
        /\ Candidate(mIndex_, k, 0) = ret.loc
        /\ find(table_, mIndex_, k) = << k, shadow[k] >>
        /\ shadow[k] # 0

\* the state of slot i of t
SlotState(t, i) ==
  IF ~t[i].used THEN "Empty" ELSE IF t[i].deleted THEN "Tombstone" ELSE "Occupied"

\* C17: in a step that does not resize, a slot either keeps its state or goes
\* Empty -> Occupied (insert), Occupied -> Tombstone (remove) or
\* Tombstone -> Occupied (insert); its contents change only in those
\* transitions and in an update of an Occupied slot; no slot becomes Empty, and
\* find and at change no slot.
C17_SlotTransitions ==
  [][ mIndex_' = mIndex_ =>
        /\ DOMAIN table_' = DOMAIN table_
        /\ \A i \in Slots(table_) :
              LET a == SlotState(table_, i)
                  b == SlotState(table_', i)
              IN  \/ a = b /\ table_'[i] = table_[i]
                  \/ a = "Occupied" /\ b = "Occupied" /\ table_'[i].key = table_[i].key
                       /\ ret'.op \in {"insert", "index"}
                  \/ a = "Empty" /\ b = "Occupied" /\ ret'.op = "insert"
                  \/ a = "Tombstone" /\ b = "Occupied" /\ ret'.op = "insert"
                  \/ a = "Occupied" /\ b = "Tombstone" /\ ret'.op = "remove"
        /\ ret'.op \in {"find", "at", "reportAll"} => table_' = table_ ]_vars

\* an insert that did not resize has overwritten the value of an Occupied slot
\* while another slot stayed a Tombstone
C17_Witness ==
  /\ ret.op = "insert" /\ ret.path = "update" /\ ~ret.grew
  /\ SlotState(table_, ret.loc) = "Occupied"
  /\ \E i \in Slots(table_) : SlotState(table_, i) = "Tombstone"

\* the index the session s yields at its call number j (j = 0, 1, ...)
IndexAt(s, j) == ProberNext([s EXCEPT !.numProbes_ = j])

\* the earlier calls the index just yielded is compared with: all of them in a
\* session followed from its first call, the first call otherwise
EarlierCalls(s) ==
  IF s.m_ \in Range(CAPACITIES) THEN 0..(s.numProbes_ - 2)
  ELSE {0} \cap (0..(s.numProbes_ - 2))

\* C18: for both probers and every capacity of the schedule, a session yields
\* an index in 0..capacity-1 at each of its first capacity calls, different
\* from the indices it yielded before (for linear probing the i-th is
\* (start + i) mod capacity), and the exhausted sentinel at every later call.
C18_SessionVisitsEverySlotOnce ==
  /\ session.numProbes_ <= session.m_
  /\ (ProberNext(session) = npos) <=> (session.numProbes_ >= session.m_)
  /\ (ret.op = "next" /\ ret.loc # npos) =>
        /\ ret.loc \in 0..(session.m_ - 1)
        /\ ret.loc = IndexAt(session, session.numProbes_ - 1)
        /\ prober_ = "linear" =>
              ret.loc = (session.start_ + (session.numProbes_ - 1)) % session.m_
        /\ \A j \in EarlierCalls(session) : IndexAt(session, j) # ret.loc

\* C19: no two live slots hold the same key, also after a key was removed and
\* inserted again and after a resize.
C19_LiveKeysUnique ==
  \A i, j \in LiveSlots(table_) : table_[i].key = table_[j].key => i = j

\* a key removed and inserted again: its old slot is a tombstone that still
\* holds the key, its live entry is in another slot
C19_Witness ==
  /\ ret.op = "insert" /\ ret.path = "new"
  /\ \E i \in TombstoneSlots(table_) :
        /\ table_[i].key = ret.key
        /\ i # ret.loc
        /\ IsLive(table_, ret.loc) /\ table_[ret.loc].key = ret.key

\* C20: an insert that raises "No more primes to grow to" has stored its entry
\* before raising: the key is found with the given value, size() counts it,
\* and the table differs from the one before the call unless the call wrote
\* the value the key already had.
C20_FailingInsertCommits ==
  [][ (ret'.op = "insert" /\ ret'.err = "No more primes to grow to") =>
        LET before == find(table_, mIndex_, ret'.key)
        IN  /\ find(table_', mIndex_', ret'.key) = << ret'.key, ret'.val >>
            /\ size(elementCount_') =
                 size(elementCount_) + (IF before = << >> THEN 1 ELSE 0)
            /\ ~empty(elementCount_')
            /\ before # << ret'.key, ret'.val >> => table_' # table_ ]_vars

\* the second key went in with the error raised: both keys are live afterwards
C20_Witness ==
  /\ ret.op = "insert" /\ ret.err = "No more primes to grow to" /\ ret.path = "new"
  /\ size(elementCount_) = 2
  /\ find(table_, mIndex_, ret.key) = << ret.key, ret.val >>

====
